---- MODULE Spec2Model ----
(***************************************************************************)
(* Notion notes agent: the chat message handler (backend/app.py) and the   *)
(* semantic search over the Notion workspace with its embedding cache      *)
(* (backend/notion_client_wrapper.py).                                     *)
(*                                                                         *)
(* Free text (message text, queries, titles) is a sequence of characters.  *)
(* Scores are fixed-point numbers in hundredths, so the relevance    *)
(* floor 0.3 is RelevanceFloor = 30.  The embedding vectors are chosen     *)
(* with integer norms, which makes every score exact.                      *)
(***************************************************************************)
EXTENDS Integers, Sequences, FiniteSets, TLC

\* ------------------------------------------------------------------ bounds
\* Page ids the workspace issues at most: the pages it starts with and those
\* create_page adds (the remote create fails beyond it).
MaxPages == 2
\* Inbound messages handled in one run.
MaxRequests == 2
\* Renames of pages by other users of the workspace, while two requests
\* search it.
MaxRenames == 1

\* ------------------------------------------------------- program constants
\* score > 0.3, in hundredths
RelevanceFloor == 30
\* limit defaults of the search and list handlers
DefaultLimit == 5
\* limit=1 of the by-title resolution in read/append/add_todo/archive
ResolveLimit == 1

\* --------------------------------------------------------------- free text
\* Texts are made of the letters p and q and of the blank.
Blank == " "
EmptyText == << >>

\* str.strip(): leading and trailing whitespace removed.
RECURSIVE LStrip(_)
LStrip(s) == IF s # << >> /\ Head(s) = Blank THEN LStrip(Tail(s)) ELSE s

RECURSIVE RStrip(_)
RStrip(s) ==
    IF s # << >> /\ s[Len(s)] = Blank THEN RStrip(SubSeq(s, 1, Len(s) - 1)) ELSE s

Strip(s) == RStrip(LStrip(s))

\* "(untitled)", the title _extract_pages gives a page without title text,
\* and "Untitled", the default title of create_note.
UntitledPage == <<"p", "q">>
UntitledNote == <<"q", "p">>

\* ------------------------------------------------------ embedding service
RECURSIVE CountChar(_, _)
CountChar(s, c) ==
    IF s = << >> THEN 0
    ELSE (IF Head(s) = c THEN 1 ELSE 0) + CountChar(Tail(s), c)

VecP == <<1, 1, 1, 1>>
VecQ == <<4, 2, -2, -1>>
VecR == <<1, 1, 1, -1>>
VecZero == <<0, 0, 0, 0>>

ScaleVec(k, v) == [i \in DOMAIN v |-> k * v[i]]

\* The remote embedding of a text: a fixed function of the text.  Texts of
\* p's only lie on one ray (equal scores, so ties), p against q scores
\* exactly 0.3, mixed texts score 0.5 against p and against q, and a text
\* without letters gets the zero vector.
Embed(text) ==
    LET np == CountChar(text, "p")
        nq == CountChar(text, "q")
    IN  CASE np = 0 /\ nq = 0 -> VecZero
          [] np > 0 /\ nq = 0 -> ScaleVec(np, VecP)
          [] np = 0 /\ nq > 0 -> ScaleVec(nq, VecQ)
          [] OTHER -> ScaleVec(np, VecR)

\* -------------------------------------------------------- _cosine_similarity
RECURSIVE SumProducts(_, _, _)
SumProducts(a, b, i) ==
    IF i > Len(a) \/ i > Len(b) THEN 0
    ELSE a[i] * b[i] + SumProducts(a, b, i + 1)

\* x ** 0.5 of a sum of squares (exact on the vectors of Embed).
RECURSIVE SqrtFrom(_, _)
SqrtFrom(x, r) == IF (r + 1) * (r + 1) > x THEN r ELSE SqrtFrom(x, r + 1)

Sqrt(x) == SqrtFrom(x, 0)

CosineSimilarity(a, b) ==
    LET dot == SumProducts(a, b, 1)
        norm_a == Sqrt(SumProducts(a, a, 1))
        norm_b == Sqrt(SumProducts(b, b, 1))
    IN  IF norm_a = 0 \/ norm_b = 0 THEN 0
        ELSE (dot * 100) \div (norm_a * norm_b)

\* ------------------------------------------------------------- JSON values
\* A value of a classification result or of its params.  Free text is
\* "txt", the name of an intent is "str", a list stands for every
\* non-empty list (unhashable, and no mapping).
JAbsent == [t |-> "absent"]
JNull == [t |-> "null"]
JList == [t |-> "list"]
JText(s) == [t |-> "txt", chars |-> s]
JInt(n) == [t |-> "int", n |-> n]
JName(s) == [t |-> "str", name |-> s]

\* The test `x is not None` in place of the truth value of x.
TruthyIsNotNone(v) == v.t \notin {"absent", "null"}

\* Truth value of a Python value (not x is ~Truthy(x)).
Truthy(v) ==
    CASE v.t = "txt" -> v.chars # << >>
      [] v.t = "int" -> v.n # 0
      [] v.t \in {"str", "list", "obj"} -> TRUE
      [] OTHER -> FALSE

\* seq[:n]
PySlice(s, n) ==
    IF n >= 0 THEN SubSeq(s, 1, IF n < Len(s) THEN n ELSE Len(s))
    ELSE SubSeq(s, 1, IF Len(s) + n > 0 THEN Len(s) + n ELSE 0)

\* --------------------------------------------------------------- workspace
\* A raw page record of the Notion search: its id and the rich-text parts of
\* its title property.
RawPage(id, parts) == [id |-> id, parts |-> parts]

\* NotionNotes._extract_pages
ExtractTitle(raw) == IF raw.parts = << >> THEN UntitledPage ELSE raw.parts[1]

ExtractPages(results) ==
    [i \in 1..Len(results) |-> [id |-> results[i].id, title |-> ExtractTitle(results[i])]]

\* One outbound call of a request: the operation and the page it acts on
\* (0 when it acts on none).
Call(op, id) == [op |-> op, id |-> id]

\* ------------------------------------------------------------ search_notes
CacheEntry(title, vec) == [title |-> title, vec |-> vec]

\* The cache that is never written.
CachePutDropped(cache, id, entry) == cache

\* self._cache[page_id] = (title, title_embedding)
CachePut(cache, id, entry) == [j \in DOMAIN cache \cup {id} |-> IF j = id THEN entry ELSE cache[j]]

CachePop(cache, id) == [j \in DOMAIN cache \ {id} |-> cache[j]]

\* The cache test without the comparison of the titles.
CacheHitById(cache, page) == page.id \in DOMAIN cache

\* line 85: the cache holds a vector for the page under its fetched title.
CacheHit(cache, page) == page.id \in DOMAIN cache /\ cache[page.id].title = page.title

\* One pass of the scoring loop of search_notes, for one page: st carries
\* the cache, the scored pairs, the calls made and whether an embedding
\* call raised.  Lines 86, 91-92: the vector is taken from the cache.
ScoreCached(page, queryVec, st) ==
    LET vec == st.cache[page.id].vec
    IN  [st EXCEPT !.scored = Append(@, [score |-> CosineSimilarity(queryVec, vec),
                                         page |-> page])]

\* Lines 88-92: the title is embedded, which may raise, and the vector is
\* stored under the title.
ScoreEmbedded(page, queryVec, embedFail, st) ==
    LET vec == Embed(page.title)
    IN  IF page.title \in embedFail
        THEN [st EXCEPT !.raised = TRUE,
                        !.calls = Append(@, Call("embed", page.id))]
        ELSE [st EXCEPT !.scored = Append(@, [score |-> CosineSimilarity(queryVec, vec),
                                              page |-> page]),
                        !.cache = CachePut(@, page.id, CacheEntry(page.title, vec)),
                        !.calls = Append(@, Call("embed", page.id))]

ScorePage(page, queryVec, embedFail, st) ==
    IF CacheHit(st.cache, page) THEN ScoreCached(page, queryVec, st)
    ELSE ScoreEmbedded(page, queryVec, embedFail, st)

\* The scoring loop of search_notes over pages[i..], which an embedding
\* call that raises leaves.
RECURSIVE ScoreLoop(_, _, _, _, _)
ScoreLoop(pages, i, queryVec, embedFail, st) ==
    IF i > Len(pages) \/ st.raised THEN st
    ELSE ScoreLoop(pages, i + 1, queryVec, embedFail,
                   ScorePage(pages[i], queryVec, embedFail, st))

\* A sort that puts a pair before the pairs of equal score (not stable).
RECURSIVE InsertByScoreUnstable(_, _)
InsertByScoreUnstable(sorted, pair) ==
    IF sorted = << >> THEN <<pair>>
    ELSE IF Head(sorted).score > pair.score
         THEN <<Head(sorted)>> \o InsertByScoreUnstable(Tail(sorted), pair)
         ELSE <<pair>> \o sorted

\* list.sort(key=score, reverse=True): stable, highest score first.
RECURSIVE InsertByScore(_, _)
InsertByScore(sorted, pair) ==
    IF sorted = << >> THEN <<pair>>
    ELSE IF Head(sorted).score >= pair.score
         THEN <<Head(sorted)>> \o InsertByScore(Tail(sorted), pair)
         ELSE <<pair>> \o sorted

RECURSIVE SortByScore(_)
SortByScore(scored) ==
    IF scored = << >> THEN << >>
    ELSE InsertByScore(SortByScore(SubSeq(scored, 1, Len(scored) - 1)), scored[Len(scored)])

RECURSIVE SelectAbove(_, _)
SelectAbove(scored, floor) ==
    IF scored = << >> THEN << >>
    ELSE (IF Head(scored).score > floor THEN <<Head(scored).page>> ELSE << >>)
         \o SelectAbove(Tail(scored), floor)

\* score >= 0.3 in place of score > 0.3
AboveFloorInclusive(scored) == SelectAbove(scored, RelevanceFloor - 1)

AboveFloor(scored) == SelectAbove(scored, RelevanceFloor)

\* The outcome of one search_notes call: raised, or the pages returned; the
\* cache it leaves; the outbound calls it made; and the scored pairs.
SearchOutcome(raised, results, cache, calls, scored) ==
    [raised |-> raised, results |-> results, cache |-> cache, calls |-> calls,
     scored |-> scored]

\* NotionNotes.search_notes(query, limit) on the workspace `results` with the
\* cache `cache`.  fetchOk: the workspace search succeeds; embedFail: the
\* texts whose embedding call raises.
SearchNotes(results, cache, query, limit, fetchOk, embedFail) ==
    LET fetch == <<Call("search", 0)>>
        all_pages == ExtractPages(results)
    IN  IF ~fetchOk THEN SearchOutcome(TRUE, << >>, cache, fetch, << >>)
        ELSE IF all_pages = << >> THEN SearchOutcome(FALSE, << >>, cache, fetch, << >>)
        ELSE IF query.t # "txt" THEN SearchOutcome(TRUE, << >>, cache, fetch, << >>)
        ELSE IF Strip(query.chars) = << >>
        THEN SearchOutcome(FALSE, PySlice(all_pages, limit), cache, fetch, << >>)
        ELSE IF query.chars \in embedFail
        THEN SearchOutcome(TRUE, << >>, cache, Append(fetch, Call("embed", 0)), << >>)
        ELSE LET st == ScoreLoop(all_pages, 1, Embed(query.chars), embedFail,
                                 [raised |-> FALSE, cache |-> cache, scored |-> << >>,
                                  calls |-> Append(fetch, Call("embed", 0))])
                 sorted == SortByScore(st.scored)
             IN  IF st.raised THEN SearchOutcome(TRUE, << >>, st.cache, st.calls, st.scored)
                 ELSE SearchOutcome(FALSE, AboveFloor(PySlice(sorted, limit)), st.cache,
                                    st.calls, sorted)

\* NotionNotes.list_recent_notes
ListRecentNotes(results, cache, limit, fetchOk, embedFail) ==
    SearchNotes(results, cache, JText(EmptyText), limit, fetchOk, embedFail)

\* A search_notes call as the handlers make it: its arguments, the pages
\* the workspace held and the cache before it, and its outcome.
NoSearch == [made |-> FALSE]

SearchCall(pages, cache, query, limit, out) ==
    [made |-> TRUE, query |-> query, limit |-> limit, pages |-> pages, cache |-> cache,
     out |-> out]

\* ------------------------------------------------- the Notion client object
\* The process-wide state the handlers act on: the module global `notion`
\* (set or None) with its embedding cache, and the remote workspace: its
\* pages, most recently edited first, the blocks of every page, and the next
\* page id it issues.
World(n, c, pg, bl, nx) == [notion |-> n, cache |-> c, pages |-> pg, blocks |-> bl, nextId |-> nx]

EmptyCache == << >>

\* _ensure_notion that reports no error when the construction fails.
EnsureNotionUnchecked(w, keySet) ==
    IF w.notion THEN [err |-> FALSE, world |-> w, attempts |-> 0]
    ELSE IF keySet
    THEN [err |-> FALSE, world |-> [w EXCEPT !.notion = TRUE, !.cache = EmptyCache],
          attempts |-> 1]
    ELSE [err |-> FALSE, world |-> w, attempts |-> 1]

\* _ensure_notion without the test `notion is not None`: every call
\* constructs a client, with an empty cache.
EnsureNotionAlways(w, keySet) ==
    IF keySet
    THEN [err |-> FALSE, world |-> [w EXCEPT !.notion = TRUE, !.cache = EmptyCache],
          attempts |-> 1]
    ELSE [err |-> TRUE, world |-> w, attempts |-> 1]

\* _ensure_notion: the error, the world it leaves, and the constructions
\* NotionNotes() it attempted.
EnsureNotion(w, keySet) ==
    IF w.notion THEN [err |-> FALSE, world |-> w, attempts |-> 0]
    ELSE IF keySet
    THEN [err |-> FALSE, world |-> [w EXCEPT !.notion = TRUE, !.cache = EmptyCache],
          attempts |-> 1]
    ELSE [err |-> TRUE, world |-> w, attempts |-> 1]

\* The position of page id in the workspace (0 when it holds no such page).
RECURSIVE IndexOf(_, _, _)
IndexOf(pages, id, i) ==
    IF i > Len(pages) THEN 0
    ELSE IF pages[i].id = id THEN i ELSE IndexOf(pages, id, i + 1)

RemoveAt(s, i) == SubSeq(s, 1, i - 1) \o SubSeq(s, i + 1, Len(s))

\* An edit makes the page the most recently edited one.
Touch(pages, id) ==
    LET i == IndexOf(pages, id, 1)
    IN  IF i = 0 THEN pages ELSE <<pages[i]>> \o RemoveAt(pages, i)

Block(type, text) == [type |-> type, text |-> text]

\* NotionNotes.get_page_content: the non-empty plain texts of the blocks
\* (joined by newlines: empty exactly when there is none).
RECURSIVE PlainTexts(_)
PlainTexts(blocks) ==
    IF blocks = << >> THEN << >>
    ELSE (IF Head(blocks).text # << >> THEN <<Head(blocks).text>> ELSE << >>)
         \o PlainTexts(Tail(blocks))

GetPageContent(w, id) == PlainTexts(w.blocks[id])

\* NotionNotes.append_to_page / append_todo: the world after the block is
\* appended.
AppendBlock(w, id, type, text) ==
    [w EXCEPT !.blocks[id] = Append(@, Block(type, text)),
              !.pages = Touch(@, id)]

AppendToPage(w, id, text) == AppendBlock(w, id, "paragraph", text)

AppendTodo(w, id, text) == AppendBlock(w, id, "to_do", text)

\* NotionNotes.archive_page: the page leaves the workspace and the cache.
ArchivePage(w, id) ==
    LET i == IndexOf(w.pages, id, 1)
    IN  [w EXCEPT !.pages = IF i = 0 THEN @ ELSE RemoveAt(@, i),
                  !.cache = CachePop(@, id)]

\* NotionNotes.create_page: a new page with the title, and one paragraph
\* when content is not empty.
CreatePage(w, title, content) ==
    LET id == w.nextId
        children == IF content # << >> THEN <<Block("paragraph", content)>> ELSE << >>
    IN  [w EXCEPT !.pages = <<RawPage(id, <<title>>)>> \o @,
                  !.blocks = [j \in DOMAIN @ \cup {id} |-> IF j = id THEN children ELSE @[j]],
                  !.nextId = id + 1,
                  !.cache = CachePop(@, id)]

\* ------------------------------------------------------------ reply texts
Say(kind) == [kind |-> kind]
SayAbout(kind, value) == [kind |-> kind, about |-> value]

PromptForInput == Say("I didn't receive any text. Please send me a message!")
NotConfigured == Say("Notion is not configured")

\* _format_notes: one line per note, with its title.
FormatNotes(notes) == [kind |-> "notes", lines |-> [i \in 1..Len(notes) |-> notes[i].title]]

\* ------------------------------------------------------------ the handlers
\* What a handler does: it raises or returns a reply text, it leaves a
\* world, it makes outbound calls, and it attempts constructions of the
\* Notion client.
Returned(text, w, calls) ==
    [raised |-> FALSE, response |-> text, world |-> w, calls |-> calls, search |-> NoSearch,
     inits |-> 0]
Raised(w, calls) ==
    [raised |-> TRUE, response |-> Say("none"), world |-> w, calls |-> calls, search |-> NoSearch,
     inits |-> 0]

\* The handler's outcome after its call e of _ensure_notion.
Ensured(e, outcome) == [outcome EXCEPT !.inits = e.attempts]

\* The handler's outcome with the search_notes call it made.
WithSearch(outcome, sr) == [outcome EXCEPT !.search = sr]

\* params.get(key, default); params that are no mapping have no get.
IsMapping(params) == params.t = "obj"
Get(params, key, default) == IF params[key].t = "absent" THEN default ELSE params[key]

\* int(x)
IntOk(v) == v.t = "int"
IntOf(v) == v.n

\* What the remote services do during one handler: the workspace search
\* succeeds, the texts whose embedding fails, the document operation
\* succeeds.
Oracle(fetchOk, embedFail, opOk) == [fetchOk |-> fetchOk, embedFail |-> embedFail, opOk |-> opOk]

HandleConnectNotion(w, keySet, params, o) ==
    LET e == EnsureNotion(w, keySet)
    IN  Ensured(e,
        IF e.err THEN Returned(NotConfigured, e.world, << >>)
        ELSE Returned(IF o.fetchOk THEN Say("Notion connection successful!")
                      ELSE Say("Failed to connect to Notion. Check your API key."),
                      e.world, <<Call("search", 0)>>))

HandleSearchNotes(w, keySet, params, o) ==
    LET e == EnsureNotion(w, keySet)
    IN  Ensured(e,
        IF e.err THEN Returned(NotConfigured, e.world, << >>)
        ELSE IF ~IsMapping(params) THEN Raised(e.world, << >>)
        ELSE LET query == Get(params, "query", JText(EmptyText))
                 limit == Get(params, "limit", JInt(DefaultLimit))
             IN  IF ~IntOk(limit) THEN Raised(e.world, << >>)
                 ELSE LET r == SearchNotes(e.world.pages, e.world.cache, query, IntOf(limit),
                                           o.fetchOk, o.embedFail)
                          sr == SearchCall(e.world.pages, e.world.cache, query, IntOf(limit), r)
                          w2 == [e.world EXCEPT !.cache = r.cache]
                      IN  WithSearch(
                            IF r.raised THEN Raised(w2, r.calls)
                            ELSE IF r.results = << >>
                            THEN Returned(SayAbout("No notes found matching", query), w2, r.calls)
                            ELSE Returned(FormatNotes(r.results), w2, r.calls), sr))

HandleListNotes(w, keySet, params, o) ==
    LET e == EnsureNotion(w, keySet)
    IN  Ensured(e,
        IF e.err THEN Returned(NotConfigured, e.world, << >>)
        ELSE IF ~IsMapping(params) THEN Raised(e.world, << >>)
        ELSE LET limit == Get(params, "limit", JInt(DefaultLimit))
             IN  IF ~IntOk(limit) THEN Raised(e.world, << >>)
                 ELSE LET r == ListRecentNotes(e.world.pages, e.world.cache, IntOf(limit),
                                               o.fetchOk, o.embedFail)
                          sr == SearchCall(e.world.pages, e.world.cache, JText(EmptyText),
                                           IntOf(limit), r)
                          w2 == [e.world EXCEPT !.cache = r.cache]
                      IN  WithSearch(
                            IF r.raised THEN Raised(w2, r.calls)
                            ELSE IF r.results = << >>
                            THEN Returned(Say("No notes found in your Notion workspace."), w2, r.calls)
                            ELSE Returned(FormatNotes(r.results), w2, r.calls), sr))

CouldNotFind(title) == SayAbout("Couldn't find a note titled", title)

\* The by-title resolution shared by read, append, add_todo and archive:
\* notion.search_notes(query=title, limit=1).
Resolve(w, title, o) ==
    SearchNotes(w.pages, w.cache, title, ResolveLimit, o.fetchOk, o.embedFail)

HandleReadNote(w, keySet, params, o) ==
    LET e == EnsureNotion(w, keySet)
    IN  Ensured(e,
        IF e.err THEN Returned(NotConfigured, e.world, << >>)
        ELSE IF ~IsMapping(params) THEN Raised(e.world, << >>)
        ELSE LET title == Get(params, "title", JText(EmptyText))
                 r == Resolve(e.world, title, o)
                 sr == SearchCall(e.world.pages, e.world.cache, title, ResolveLimit, r)
                 w2 == [e.world EXCEPT !.cache = r.cache]
             IN  WithSearch(
                   IF r.raised THEN Raised(w2, r.calls)
                   ELSE IF r.results = << >> THEN Returned(CouldNotFind(title), w2, r.calls)
                   ELSE LET note == r.results[1]
                            calls == Append(r.calls, Call("blocks.list", note.id))
                            content == GetPageContent(w2, note.id)
                        IN  IF ~o.opOk THEN Raised(w2, calls)
                            ELSE Returned([kind |-> "note", title |-> note.title,
                                           content |-> content], w2, calls), sr))

HandleCreateNote(w, keySet, params, o) ==
    LET e == EnsureNotion(w, keySet)
    IN  Ensured(e,
        IF e.err THEN Returned(NotConfigured, e.world, << >>)
        ELSE IF ~IsMapping(params) THEN Raised(e.world, << >>)
        ELSE LET title == Get(params, "title", JText(UntitledNote))
                 content == Get(params, "content", JText(EmptyText))
                 failed == Say("Failed to create note")
                 root == <<Call("search", 0)>>
             IN  IF ~o.fetchOk \/ e.world.pages = << >> THEN Returned(failed, e.world, root)
                 ELSE IF \/ ~o.opOk
                         \/ title.t # "txt"
                         \/ (Truthy(content) /\ content.t # "txt")
                         \/ e.world.nextId > MaxPages
                 THEN Returned(failed, e.world, Append(root, Call("pages.create", 0)))
                 ELSE Returned(SayAbout("Created note", title),
                               CreatePage(e.world, title.chars,
                                          IF Truthy(content) THEN content.chars ELSE EmptyText),
                               Append(root, Call("pages.create", e.world.nextId))))

\* handle_append_note and handle_add_todo differ in the parameter that
\* carries the text, the block appended and the reply.
AppendHandler(w, keySet, params, o, key, type, ask, added) ==
    LET e == EnsureNotion(w, keySet)
    IN  Ensured(e,
        IF e.err THEN Returned(NotConfigured, e.world, << >>)
        ELSE IF ~IsMapping(params) THEN Raised(e.world, << >>)
        ELSE LET title == Get(params, "title", JText(EmptyText))
                 text == Get(params, key, JText(EmptyText))
             IN  IF ~Truthy(title) \/ ~Truthy(text) THEN Returned(Say(ask), e.world, << >>)
                 ELSE LET r == Resolve(e.world, title, o)
                          sr == SearchCall(e.world.pages, e.world.cache, title, ResolveLimit, r)
                          w2 == [e.world EXCEPT !.cache = r.cache]
                      IN  WithSearch(
                            IF r.raised THEN Raised(w2, r.calls)
                            ELSE IF r.results = << >>
                            THEN Returned(CouldNotFind(title), w2, r.calls)
                            ELSE LET note == r.results[1]
                                     calls == Append(r.calls, Call("blocks.append", note.id))
                                 IN  IF ~o.opOk \/ text.t # "txt"
                                     THEN Raised(w2, calls)
                                     ELSE Returned(SayAbout(added, JText(note.title)),
                                                   IF type = "to_do"
                                                   THEN AppendTodo(w2, note.id, text.chars)
                                                   ELSE AppendToPage(w2, note.id, text.chars),
                                                   calls), sr))

HandleAppendNote(w, keySet, params, o) ==
    AppendHandler(w, keySet, params, o, "text", "paragraph",
                  "I need both a note title and the text to append.", "Added text to")

HandleAddTodo(w, keySet, params, o) ==
    AppendHandler(w, keySet, params, o, "task", "to_do",
                  "I need both a note title and the task text.", "Added to-do to")

HandleArchiveNote(w, keySet, params, o) ==
    LET e == EnsureNotion(w, keySet)
    IN  Ensured(e,
        IF e.err THEN Returned(NotConfigured, e.world, << >>)
        ELSE IF ~IsMapping(params) THEN Raised(e.world, << >>)
        ELSE LET title == Get(params, "title", JText(EmptyText))
             IN  IF ~Truthy(title)
                 THEN Returned(Say("I need the title of the note to archive."), e.world, << >>)
                 ELSE LET r == Resolve(e.world, title, o)
                          sr == SearchCall(e.world.pages, e.world.cache, title, ResolveLimit, r)
                          w2 == [e.world EXCEPT !.cache = r.cache]
                      IN  WithSearch(
                            IF r.raised THEN Raised(w2, r.calls)
                            ELSE IF r.results = << >>
                            THEN Returned(CouldNotFind(title), w2, r.calls)
                            ELSE LET note == r.results[1]
                                     calls == Append(r.calls, Call("pages.update", note.id))
                                 IN  IF ~o.opOk THEN Raised(w2, calls)
                                     ELSE Returned(SayAbout("Archived", JText(note.title)),
                                                   ArchivePage(w2, note.id), calls), sr))

\* The answer of the reasoning service to a user text.
AnswerTo(user_text) == SayAbout("answer", user_text)

\* handle_general_query that posts the request again when it failed.
HandleGeneralQueryRetrying(w, user_text, o) ==
    IF o.opOk THEN Returned(AnswerTo(user_text), w, <<Call("asi1.answer", 0)>>)
    ELSE Returned(Say("Sorry, I wasn't able to process that."), w,
                  <<Call("asi1.answer", 0), Call("asi1.answer", 0)>>)

\* handle_general_query(user_text): the reasoning service answers the text
\* it is given, or the apology.
HandleGeneralQuery(w, user_text, o) ==
    Returned(IF o.opOk THEN AnswerTo(user_text)
             ELSE Say("Sorry, I wasn't able to process that."),
             w, <<Call("asi1.answer", 0)>>)

\* --------------------------------------------------------- classify_intent
IntentNames ==
    {"connect_notion", "search_notes", "list_notes", "read_note", "create_note",
     "append_note", "add_todo", "archive_note", "general_query"}

\* A params mapping: every key it can hold, absent or with a value.
Params(query, limit, title, content, text, task) ==
    [t |-> "obj", query |-> query, limit |-> limit, title |-> title, content |-> content,
     text |-> text, task |-> task]

EmptyParams == Params(JAbsent, JAbsent, JAbsent, JAbsent, JAbsent, JAbsent)

\* A JSON object with the fields of a classification result.
ResultObject(intent, params) == [t |-> "obj", intent |-> intent, params |-> params]

DefaultResult == ResultObject(JName("general_query"), EmptyParams)

\* What the reasoning service does with one request: the post raises, or
\* the response has no choices[0].message.content, or it carries content:
\* bare, in a code fence with a line break after the opening fence, or
\* starting with a fence and holding no line break; the text inside is
\* malformed JSON or the text of a JSON value.
NetworkError == [kind |-> "network_error"]
ErrorResponse == [kind |-> "error_response"]
Content(fence, body) == [kind |-> "content", fence |-> fence, body |-> body]
Malformed == [t |-> "malformed"]

\* classify_intent without the except clause around the parsing.
ClassifyIntentUncaught(reply) ==
    IF reply.kind # "content" THEN DefaultResult ELSE reply.body

\* classify_intent: the parsed JSON value, or the default on any exception.
ClassifyIntentResult(reply) ==
    IF reply.kind # "content" THEN DefaultResult
    ELSE IF reply.fence = "inline" THEN DefaultResult
    ELSE IF reply.body.t = "malformed" THEN DefaultResult
    ELSE reply.body

\* handle_message, lines 296-301: the intent and the params of the result,
\* and the handler looked up; raised when the result has no get, or the
\* intent is unhashable.
Unpack(result) ==
    IF result.t # "obj" THEN [raised |-> TRUE, params |-> EmptyParams, handler |-> "none"]
    ELSE LET intent == IF result.intent.t = "absent" THEN JName("general_query")
                       ELSE result.intent
             params == IF result.params.t = "absent" THEN EmptyParams ELSE result.params
         IN  IF intent.t \in {"list", "obj"}
             THEN [raised |-> TRUE, params |-> params, handler |-> "none"]
             ELSE [raised |-> FALSE, params |-> params,
                   handler |-> IF intent.t = "str" /\ intent.name \in IntentNames
                               THEN intent.name ELSE "general_query"]

\* ------------------------------------------------------------------ inputs
TextItem(s) == [type |-> "text", text |-> s]
OtherItem == [type |-> "other", text |-> << >>]

\* The content of the inbound messages.
InboundContents ==
    { << >>, <<OtherItem>>, <<TextItem(<<" ">>)>>, <<TextItem(<<"p">>)>>,
      <<TextItem(<<" ">>), OtherItem, TextItem(<<"q">>)>> }

QueryValues == {JAbsent, JText(<<" ">>), JText(<<"p">>), JText(<<"q">>)}
LimitValues == {JAbsent, JInt(-1), JInt(0), JInt(1), JNull}
TitleValues == {JAbsent, JText(<< >>), JText(<<" ">>), JText(<<"p">>), JText(<<"q">>), JNull}
NewTitleValues == {JAbsent, JText(<<"p">>), JNull}
BodyValues == {JAbsent, JText(<< >>), JText(<<"p">>)}

\* The params the classifier extracts for each intent.
ParamsOf(intent) ==
    CASE intent = "search_notes" ->
           {Params(q, l, JAbsent, JAbsent, JAbsent, JAbsent) :
               q \in QueryValues, l \in {JAbsent, JInt(1)}}
           \cup {Params(q, l, JAbsent, JAbsent, JAbsent, JAbsent) :
                   q \in {JText(<<" ">>), JText(<<"p">>)}, l \in LimitValues}
      [] intent = "list_notes" ->
           {Params(JAbsent, l, JAbsent, JAbsent, JAbsent, JAbsent) : l \in LimitValues}
      [] intent \in {"read_note", "archive_note"} ->
           {Params(JAbsent, JAbsent, ti, JAbsent, JAbsent, JAbsent) : ti \in TitleValues}
      [] intent = "create_note" ->
           {Params(JAbsent, JAbsent, ti, JAbsent, JAbsent, JAbsent) : ti \in NewTitleValues}
           \cup {Params(JAbsent, JAbsent, JText(<<"p">>), c, JAbsent, JAbsent) : c \in BodyValues}
      [] intent = "append_note" ->
           {Params(JAbsent, JAbsent, ti, JAbsent, JText(<<"p">>), JAbsent) : ti \in TitleValues}
           \cup {Params(JAbsent, JAbsent, JText(<<"p">>), JAbsent, x, JAbsent) : x \in BodyValues}
      [] intent = "add_todo" ->
           {Params(JAbsent, JAbsent, ti, JAbsent, JAbsent, JText(<<"p">>)) : ti \in TitleValues}
           \cup {Params(JAbsent, JAbsent, JText(<<"p">>), JAbsent, JAbsent, x) : x \in BodyValues}
      [] OTHER -> {EmptyParams}

\* The JSON values the reasoning service answers with: well-formed results,
\* results without params or with params that are no mapping, results
\* whose intent is missing, unknown, no string or unhashable, and values
\* that are no object.
WellFormedResults ==
    UNION {{ResultObject(JName(i), p) : p \in ParamsOf(i)} : i \in IntentNames}

OddResults ==
    {ResultObject(JName(i), p) : i \in {"connect_notion", "search_notes"},
                                 p \in {JAbsent, JNull, JList}}
    \cup {ResultObject(i, JAbsent) : i \in {JName("bogus"), JInt(7), JNull, JList}}
    \cup {ResultObject(JAbsent, p) :
            p \in {JAbsent, Params(JAbsent, JAbsent, JText(<<"p">>), JAbsent, JAbsent, JAbsent)}}
    \cup {JNull, JList, JText(<<"p">>), JInt(7)}

JsonValues == WellFormedResults \cup OddResults

ClassifierReplies ==
    {NetworkError, ErrorResponse, Content("none", Malformed), Content("inline", Malformed)}
    \cup {Content("none", v) : v \in JsonValues}
    \cup {Content("block", v) : v \in {Malformed, JList,
                                       ResultObject(JName("list_notes"), EmptyParams)}}

\* A handler stops at the first call that fails, so at most one call of a
\* request fails.
Oracles ==
    {Oracle(TRUE, {}, TRUE), Oracle(FALSE, {}, TRUE), Oracle(TRUE, {}, FALSE),
     Oracle(TRUE, {<<"p">>}, TRUE), Oracle(TRUE, {<<"q">>}, TRUE)}

PageParts == {<< >>, <<<<"p">>>>, <<<<"q">>>>}

\* The workspaces the process can start with: pages 1..n, page 1 the most
\* recently edited.
InitialPages ==
    UNION {[1..n -> {RawPage(0, x) : x \in PageParts}] : n \in 0..MaxPages}

Renumber(ps) == [i \in 1..Len(ps) |-> RawPage(i, ps[i].parts)]

\* ------------------------------------------------------------------- state
VARIABLES
    started,        \* the startup event has run
    apiKeySet,      \* NOTION_API_KEY is set in the environment
    world,          \* the notion client, its cache and the remote workspace
    handled,        \* inbound messages received so far
    pc,             \* where handle_message stands for the current message
    msg,            \* the inbound message
    text,           \* the text extracted from it
    reply,          \* what the reasoning service did with the classification
    result,         \* what classify_intent returned
    params,         \* the params handed to the handler
    handler,        \* the handler looked up
    response_text,  \* the text to reply with
    outbox,         \* the messages sent to the sender for this message
    calls,          \* the outbound calls made for this message
    search,         \* the search_notes call made for this message
    inits,          \* the constructions of the Notion client attempted for it
    events,         \* the steps of this message, in order
    runs,           \* the search_notes calls of two concurrent requests
    renames         \* the renames of pages made in Notion, outside this program

vars == <<started, apiKeySet, world, handled, pc, msg, text, reply, result, params, handler,
          response_text, outbox, calls, search, inits, events, runs, renames>>

request ==
    <<msg, text, reply, result, params, handler, response_text, outbox, calls, search, inits,
      events>>

\* The state of the concurrent search_notes calls and of the workspace's
\* other users.
concurrent == <<runs, renames>>

\* The two requests whose search_notes calls may overlap.
Callers == {"a", "b"}

\* The search_notes call of a request: where it stands (idle, query: before
\* the embedding of the query, titles: in the scoring loop, embedding:
\* waiting for the embedding of a title, returned, raised), its arguments, the pages it fetched, the index of the page the
\* loop is at, its local list `scored`, the outbound calls it made, the
\* result it returned, and the calls that had returned when it began.
IdleRun ==
    [at |-> "idle", query |-> EmptyText, limit |-> 0, pages |-> << >>, i |-> 0,
     scored |-> << >>, calls |-> << >>, results |-> << >>, after |-> {}]

NoMessage == [msg_id |-> 0, content |-> << >>]
NoReply == [kind |-> "none"]
NoText == Say("none")

Init ==
    /\ started = FALSE
    /\ apiKeySet \in BOOLEAN
    /\ \E ps \in InitialPages :
          world = World(FALSE, EmptyCache, Renumber(ps), [i \in 1..Len(ps) |-> << >>], Len(ps) + 1)
    /\ handled = 0
    /\ pc = "idle"
    /\ msg = NoMessage
    /\ text = EmptyText
    /\ reply = NoReply
    /\ result = JAbsent
    /\ params = EmptyParams
    /\ handler = "none"
    /\ response_text = NoText
    /\ outbox = << >>
    /\ calls = << >>
    /\ search = NoSearch
    /\ inits = 0
    /\ events = << >>
    /\ runs = [c \in Callers |-> IdleRun]
    /\ renames = 0

\* startup_handler: the early _ensure_notion (its failure is logged only).
Startup ==
    /\ ~started
    /\ started' = TRUE
    /\ world' = EnsureNotion(world, apiKeySet).world
    /\ UNCHANGED <<concurrent, apiKeySet, handled, pc, request>>

\* The transport delivers a message: handle_message starts.
Receive ==
    /\ started
    /\ pc \in {"idle", "replied", "raised"}
    /\ handled < MaxRequests
    /\ \E content \in InboundContents :
          msg' = [msg_id |-> handled + 1, content |-> content]
    /\ handled' = handled + 1
    /\ pc' = "received"
    /\ text' = EmptyText
    /\ reply' = NoReply
    /\ result' = JAbsent
    /\ params' = EmptyParams
    /\ handler' = "none"
    /\ response_text' = NoText
    /\ outbox' = << >>
    /\ calls' = << >>
    /\ search' = NoSearch
    /\ inits' = 0
    /\ events' = <<"received">>
    /\ UNCHANGED <<concurrent, started, apiKeySet, world>>

Ack(msg_id) == [type |-> "ack", acknowledged_msg_id |-> msg_id]

\* handle_message without the acknowledgement.
AcknowledgeSkipped ==
    /\ pc = "received"
    /\ pc' = "acknowledged"
    /\ UNCHANGED <<concurrent, started, apiKeySet, world, handled, msg, text, reply, result, params,
                   handler, response_text, outbox, calls, search, inits, events>>

\* lines 280-283: the acknowledgement.
Acknowledge ==
    /\ pc = "received"
    /\ outbox' = Append(outbox, Ack(msg.msg_id))
    /\ events' = Append(events, "acknowledged")
    /\ pc' = "acknowledged"
    /\ UNCHANGED <<concurrent, started, apiKeySet, world, handled, msg, text, reply, result, params,
                   handler, response_text, calls, search, inits>>

\* lines 286-289: the texts of the TextContent items, concatenated.
RECURSIVE ExtractedText(_)
ExtractedText(content) ==
    IF content = << >> THEN EmptyText
    ELSE (IF Head(content).type = "text" THEN Head(content).text ELSE EmptyText)
         \o ExtractedText(Tail(content))

\* The test `not text` in place of `not text.strip()`.
ExtractTextUnstripped ==
    /\ pc = "acknowledged"
    /\ text' = ExtractedText(msg.content)
    /\ IF text' = EmptyText
       THEN response_text' = PromptForInput /\ pc' = "respond"
       ELSE response_text' = response_text /\ pc' = "classify"
    /\ UNCHANGED <<concurrent, started, apiKeySet, world, handled, msg, reply, result, params, handler,
                   outbox, calls, search, inits, events>>

\* lines 286-292: without text the reply is the prompt for input.
ExtractText ==
    /\ pc = "acknowledged"
    /\ text' = ExtractedText(msg.content)
    /\ IF Strip(text') = EmptyText
       THEN response_text' = PromptForInput /\ pc' = "respond"
       ELSE response_text' = response_text /\ pc' = "classify"
    /\ UNCHANGED <<concurrent, started, apiKeySet, world, handled, msg, reply, result, params, handler,
                   outbox, calls, search, inits, events>>

\* lines 295-301: classification, and the handler looked up.
Classify ==
    /\ pc = "classify"
    /\ \E r \in ClassifierReplies :
          /\ reply' = r
          /\ result' = ClassifyIntentResult(r)
    /\ calls' = Append(calls, Call("asi1.classify", 0))
    /\ events' = Append(events, "classified")
    /\ LET u == Unpack(result')
       IN  /\ params' = u.params
           /\ handler' = u.handler
           /\ pc' = IF u.raised THEN "raised" ELSE "dispatch"
    /\ UNCHANGED <<concurrent, started, apiKeySet, world, handled, msg, text, response_text, outbox, search, inits>>

\* line 302: the handler runs, and returns the reply text or raises.
Finish(out) ==
    /\ world' = out.world
    /\ calls' = calls \o out.calls
    /\ search' = out.search
    /\ inits' = out.inits
    /\ events' = Append(events, "dispatched")
    /\ response_text' = out.response
    /\ pc' = IF out.raised THEN "raised" ELSE "respond"
    /\ UNCHANGED <<concurrent, started, apiKeySet, handled, msg, text, reply, result, params, handler, outbox>>

Dispatching(name) == pc = "dispatch" /\ handler = name

ConnectNotion ==
    /\ Dispatching("connect_notion")
    /\ \E o \in Oracles : Finish(HandleConnectNotion(world, apiKeySet, params, o))

SearchNotesIntent ==
    /\ Dispatching("search_notes")
    /\ \E o \in Oracles : Finish(HandleSearchNotes(world, apiKeySet, params, o))

ListNotes ==
    /\ Dispatching("list_notes")
    /\ \E o \in Oracles : Finish(HandleListNotes(world, apiKeySet, params, o))

ReadNote ==
    /\ Dispatching("read_note")
    /\ \E o \in Oracles : Finish(HandleReadNote(world, apiKeySet, params, o))

CreateNote ==
    /\ Dispatching("create_note")
    /\ \E o \in Oracles : Finish(HandleCreateNote(world, apiKeySet, params, o))

AppendNote ==
    /\ Dispatching("append_note")
    /\ \E o \in Oracles : Finish(HandleAppendNote(world, apiKeySet, params, o))

AddTodo ==
    /\ Dispatching("add_todo")
    /\ \E o \in Oracles : Finish(HandleAddTodo(world, apiKeySet, params, o))

ArchiveNote ==
    /\ Dispatching("archive_note")
    /\ \E o \in Oracles : Finish(HandleArchiveNote(world, apiKeySet, params, o))

GeneralQuery ==
    /\ Dispatching("general_query")
    /\ \E o \in Oracles : Finish(HandleGeneralQuery(world, text, o))

ReplyMessage(t) == [type |-> "chat", content |-> <<[type |-> "text", text |-> t], [type |-> "end-session"]>>]

\* lines 305-315: the reply with the text and the end-session marker.
SendReply ==
    /\ pc = "respond"
    /\ outbox' = Append(outbox, ReplyMessage(response_text))
    /\ events' = Append(events, "replied")
    /\ pc' = "replied"
    /\ UNCHANGED <<concurrent, started, apiKeySet, world, handled, msg, text, reply, result, params,
                   handler, response_text, calls, search, inits>>

Next ==
    \/ Startup
    \/ Receive
    \/ Acknowledge
    \/ ExtractText
    \/ Classify
    \/ ConnectNotion
    \/ SearchNotesIntent
    \/ ListNotes
    \/ ReadNote
    \/ CreateNote
    \/ AppendNote
    \/ AddTodo
    \/ ArchiveNote
    \/ GeneralQuery
    \/ SendReply

Spec == Init /\ [][Next]_vars

\* ------------------------------------- concurrent calls of search_notes
\* Two requests of a started process call notion.search_notes on the one
\* NotionNotes object, whose _cache they share, while other users of the
\* workspace rename pages.  The event loop runs a handler, which makes its
\* remote calls synchronously, without interruption; this specification
\* allows more: a call may be overtaken wherever it waits for a remote
\* service (the workspace search and every embedding request), and the
\* statements between two remote calls run without interruption.
handling == <<started, apiKeySet, handled, pc, request>>

SharedQueries == {<<"p">>, <<" ">>}
SharedLimits == {ResolveLimit, DefaultLimit}

\* The workspaces the searches start on: pages without a title or titled p;
\* a rename gives a page the title q.
RenameTitles == {<<"q">>}

SharedPages ==
    UNION {[1..n -> {RawPage(0, x) : x \in {<< >>, <<<<"p">>>>}}] : n \in 0..MaxPages}

\* A process that has started with NOTION_API_KEY set: the client exists,
\* its cache is empty.
InitShared ==
    /\ started = TRUE
    /\ apiKeySet = TRUE
    /\ \E ps \in SharedPages :
          world = World(TRUE, EmptyCache, Renumber(ps), [i \in 1..Len(ps) |-> << >>], Len(ps) + 1)
    /\ handled = 0
    /\ pc = "idle"
    /\ msg = NoMessage
    /\ text = EmptyText
    /\ reply = NoReply
    /\ result = JAbsent
    /\ params = EmptyParams
    /\ handler = "none"
    /\ response_text = NoText
    /\ outbox = << >>
    /\ calls = << >>
    /\ search = NoSearch
    /\ inits = 0
    /\ events = << >>
    /\ runs = [c \in Callers |-> IdleRun]
    /\ renames = 0

\* The local list `scored` kept on the shared object.
KeepScoredShared(rs, c, scored) == [x \in DOMAIN rs |-> [rs[x] EXCEPT !.scored = scored]]

\* scored.append((score, page)): the list is a local of the call.
KeepScored(rs, c, scored) == [rs EXCEPT ![c].scored = scored]

\* lines 66-74: the pages are fetched; without pages, or with a blank
\* query, the call returns at once.  Of the two requests, a is the one whose
\* call begins first.
BeginSearch(c) ==
    /\ runs[c].at = "idle"
    /\ c = "a" \/ runs["a"].at # "idle"
    /\ \E query \in SharedQueries, limit \in SharedLimits, fetchOk \in BOOLEAN :
          LET all_pages == ExtractPages(world.pages)
              run == [runs[c] EXCEPT !.query = query, !.limit = limit,
                                     !.calls = <<Call("search", 0)>>,
                                     !.after = {x \in Callers : runs[x].at = "returned"}]
          IN  runs' = [runs EXCEPT ![c] =
                  IF ~fetchOk THEN [run EXCEPT !.at = "raised"]
                  ELSE IF all_pages = << >>
                  THEN [run EXCEPT !.at = "returned", !.pages = world.pages]
                  ELSE IF Strip(query) = << >>
                  THEN [run EXCEPT !.at = "returned", !.pages = world.pages,
                                   !.results = PySlice(all_pages, limit)]
                  ELSE [run EXCEPT !.at = "query", !.pages = world.pages]]
    /\ UNCHANGED <<handling, world, renames>>

\* line 77: the embedding of the query.
EmbedQuery(c) ==
    /\ runs[c].at = "query"
    /\ \E ok \in BOOLEAN :
          runs' = [runs EXCEPT ![c].calls = Append(@, Call("embed", 0)),
                               ![c].at = IF ok THEN "titles" ELSE "raised",
                               ![c].i = 1]
    /\ UNCHANGED <<handling, world, renames>>

\* The state of the loop of the call, with the shared cache.
LoopState(c) ==
    [raised |-> FALSE, cache |-> world.cache, scored |-> runs[c].scored,
     calls |-> runs[c].calls]

\* The call goes on with what the pass left.
AfterPass(c, st) ==
    /\ runs' = KeepScored([runs EXCEPT ![c].calls = st.calls,
                                       ![c].i = @ + 1,
                                       ![c].at = IF st.raised THEN "raised" ELSE "titles"],
                          c, st.scored)
    /\ world' = [world EXCEPT !.cache = st.cache]

\* lines 81-86, 91-92: the cache is tested for the page the loop is at; on
\* a hit the page is scored, otherwise the embedding of its title is
\* requested.
ScoreTitle(c) ==
    /\ runs[c].at = "titles"
    /\ runs[c].i <= Len(runs[c].pages)
    /\ LET page == ExtractPages(runs[c].pages)[runs[c].i]
       IN  IF CacheHit(world.cache, page)
           THEN AfterPass(c, ScoreCached(page, Embed(runs[c].query), LoopState(c)))
           ELSE /\ runs' = [runs EXCEPT ![c].at = "embedding"]
                /\ world' = world
    /\ UNCHANGED <<handling, renames>>

\* lines 88-92: the embedding request ends: it raises, or the vector is
\* stored and the page is scored.
TitleEmbedded(c) ==
    /\ runs[c].at = "embedding"
    /\ \E ok \in BOOLEAN :
          LET page == ExtractPages(runs[c].pages)[runs[c].i]
          IN  AfterPass(c, ScoreEmbedded(page, Embed(runs[c].query),
                                         IF ok THEN {} ELSE {page.title}, LoopState(c)))
    /\ UNCHANGED <<handling, renames>>

\* lines 95-102: the sort, the cut and the floor.
ReturnResults(c) ==
    /\ runs[c].at = "titles"
    /\ runs[c].i > Len(runs[c].pages)
    /\ runs' = [runs EXCEPT ![c].at = "returned",
                            ![c].results = AboveFloor(PySlice(SortByScore(runs[c].scored),
                                                              runs[c].limit))]
    /\ UNCHANGED <<handling, world, renames>>

\* Another user of the workspace gives a page a new title, which makes it
\* the most recently edited page.
Rename(id, title) ==
    /\ renames < MaxRenames
    /\ \E k \in DOMAIN world.pages :
          /\ world.pages[k].id = id
          /\ world.pages[k].parts # <<title>>
          /\ world' = [world EXCEPT !.pages = Touch([@ EXCEPT ![k].parts = <<title>>], id)]
    /\ renames' = renames + 1
    /\ UNCHANGED <<handling, runs>>

NextShared ==
    \/ \E c \in Callers : BeginSearch(c)
    \/ \E c \in Callers : EmbedQuery(c)
    \/ \E c \in Callers : ScoreTitle(c)
    \/ \E c \in Callers : TitleEmbedded(c)
    \/ \E c \in Callers : ReturnResults(c)
    \/ \E id \in 1..MaxPages, title \in RenameTitles : Rename(id, title)

SpecShared == InitShared /\ [][NextShared]_vars

\* ================================================================== claims
Happened(e) == \E i \in DOMAIN events : events[i] = e

\* handle_message has ended for the current message: it returned after the
\* reply, or an exception left it.
Ended == pc \in {"replied", "raised"}

ChatReplies == {i \in DOMAIN outbox : outbox[i].type = "chat"}
Acks == {i \in DOMAIN outbox : outbox[i].type = "ack"}

\* C1: when handle_message has ended for a message that was dispatched, or
\* that had no text, whatever the outcome of the handler (success, fallback,
\* not found, a workspace or embedding call that raised), it has sent
\* exactly one reply to the sender, with one text item and the end-session
\* marker; and it never sends two.
C1_ExactlyOneReply ==
    /\ Cardinality(ChatReplies) <= 1
    /\ (Ended /\ (Happened("dispatched") \/ ~Happened("classified"))) =>
          /\ Cardinality(ChatReplies) = 1
          /\ outbox[Len(outbox)] = ReplyMessage(response_text)

\* C2: no exception raised inside classification or dispatch leaves
\* handle_message.
C2_NoExceptionEscapes == pc # "raised"

EventOrder(e) ==
    CASE e = "received" -> 1
      [] e = "acknowledged" -> 2
      [] e = "classified" -> 3
      [] e = "dispatched" -> 4
      [] e = "replied" -> 5

AckSent == outbox # << >> /\ outbox[1] = Ack(msg.msg_id)

\* C3: the steps of a message happen in the order received, acknowledged,
\* classified, dispatched, replied; the acknowledgement of the message's
\* msg_id is the first thing sent, before classification and before any
\* outbound call, and it has been sent (once) whenever handle_message is past
\* its first statement: also without text, and when classification or
\* dispatch raised.
C3_AckFirst ==
    /\ \A i, j \in DOMAIN events : i < j => EventOrder(events[i]) < EventOrder(events[j])
    /\ pc \notin {"idle", "received"} =>
          AckSent /\ Cardinality(Acks) = 1 /\ Len(events) >= 2 /\ events[2] = "acknowledged"
    /\ (calls # << >> \/ Happened("classified") \/ Happened("replied")) => AckSent

C3_Witness ==
    /\ pc = "raised"
    /\ Happened("dispatched")
    /\ outbox = <<Ack(msg.msg_id)>>
    /\ events = <<"received", "acknowledged", "classified", "dispatched">>

\* The message has no text item, or its text is empty or whitespace only,
\* and handle_message is past the test of it.
WithoutText ==
    /\ pc \notin {"idle", "received", "acknowledged"}
    /\ Strip(ExtractedText(msg.content)) = EmptyText

\* C4: a message without text is answered with the prompt for input, and no
\* classification call, no handler and no workspace call is made for it.
C4_NoTextNoWork ==
    WithoutText =>
        /\ pc \in {"respond", "replied"}
        /\ response_text = PromptForInput
        /\ calls = << >>
        /\ reply = NoReply
        /\ handler = "none"
        /\ search = NoSearch
        /\ ~Happened("classified") /\ ~Happened("dispatched")
        /\ pc = "replied" => outbox = <<Ack(msg.msg_id), ReplyMessage(PromptForInput)>>

C4_Witness ==
    /\ pc = "replied"
    /\ msg.content = <<TextItem(<<" ">>)>>
    /\ outbox = <<Ack(msg.msg_id), ReplyMessage(PromptForInput)>>

\* The remote response is no usable classification: the post raised, the
\* response is an error response, or its content is no JSON text.
Unparsable(r) ==
    \/ r.kind \in {"network_error", "error_response"}
    \/ r.kind = "content" /\ (r.fence = "inline" \/ r.body.t = "malformed")

\* The content is a JSON object without an intent field.
WithoutIntent(r) ==
    /\ r.kind = "content" /\ r.fence # "inline"
    /\ r.body.t = "obj"
    /\ r.body.intent.t = "absent"

\* C5 as stated: on every failure of the remote response, a JSON object
\* with no intent field included, classify_intent returns exactly
\* {intent: general_query, params: {}}.
C5_DefaultOnEveryFailure ==
    Happened("classified") =>
        ((Unparsable(reply) \/ WithoutIntent(reply)) => result = DefaultResult)

\* C5 amended: classify_intent returns exactly the default when the post
\* raises, the response is an error response or the content is no JSON
\* text; well-formed JSON is returned as parsed, also an object with no
\* intent field, for which handle_message then takes the general_query
\* handler.
C5_DefaultOnUnparsable ==
    Happened("classified") =>
        /\ Unparsable(reply) => result = DefaultResult
        /\ ~Unparsable(reply) => result = reply.body
        /\ WithoutIntent(reply) => handler = "general_query" /\ pc # "raised"

C5_Witness ==
    /\ Happened("classified")
    /\ WithoutIntent(reply)
    /\ result = reply.body
    /\ result # DefaultResult
    /\ handler = "general_query"

\* C6: whatever text the reasoning service returned, a message that was
\* classified, and for which nothing but the classification was called,
\* has been dispatched and replied to when handle_message has ended.
C6_ClassificationNeverCrashes ==
    (Ended /\ Happened("classified") /\ calls = <<Call("asi1.classify", 0)>>) =>
        (Happened("dispatched") /\ pc = "replied")

\* search_notes was called for the current message and returned.
SearchReturned == search.made /\ ~search.out.raised

\* The similarity of a query and a title: that of their embeddings.
Score(query, title) == CosineSimilarity(Embed(query), Embed(title))

ReturnedAboveFloor ==
    \A i \in DOMAIN search.out.results :
        Score(search.query.chars, search.out.results[i].title) > RelevanceFloor

\* C7 as stated: for every non-empty query, no document search_notes
\* returns scores at or below 0.3 against the query.
C7_NonEmptyQueryAboveFloor ==
    (SearchReturned /\ search.query.t = "txt" /\ search.query.chars # EmptyText) =>
        ReturnedAboveFloor

\* The query is text with a character that is no whitespace.
QueryNotBlank == search.query.t = "txt" /\ Strip(search.query.chars) # EmptyText

\* C7 amended: for every query that is neither empty nor whitespace only,
\* every fetched document set and every limit, no document search_notes
\* returns scores at or below 0.3 against the query.
C7_QueryAboveFloor == (SearchReturned /\ QueryNotBlank) => ReturnedAboveFloor

\* A document scoring exactly 0.3 was fetched and left out, another returned.
C7_Witness ==
    /\ SearchReturned /\ QueryNotBlank
    /\ search.out.results # << >>
    /\ search.limit >= Len(search.pages)
    /\ \E i \in DOMAIN search.pages :
          /\ Score(search.query.chars, ExtractTitle(search.pages[i])) = RelevanceFloor
          /\ \A k \in DOMAIN search.out.results : search.out.results[k].id # search.pages[i].id

\* The scores of the fetched pages against the query, in fetch order.
RECURSIVE ScoresOf(_, _)
ScoresOf(query, fetched) ==
    IF fetched = << >> THEN << >>
    ELSE <<Score(query, Head(fetched).title)>> \o ScoresOf(query, Tail(fetched))

\* The candidates in the order the claim gives: those scoring above 0.3, by
\* descending score, equal scores in fetch order.
Ranked(fetched, scores) ==
    LET cand == {i \in DOMAIN fetched : scores[i] > RelevanceFloor}
        before(j, i) == scores[j] > scores[i] \/ (scores[j] = scores[i] /\ j < i)
        rank(i) == 1 + Cardinality({j \in cand : before(j, i)})
    IN  [k \in 1..Cardinality(cand) |-> fetched[CHOOSE i \in cand : rank(i) = k]]

\* The first n elements of a sequence.
FirstN(seq, n) == SubSeq(seq, 1, IF n < Len(seq) THEN n ELSE Len(seq))

\* The result of the search is the first `limit` of the ranked candidates.
ResultIsRanked ==
    LET fetched == ExtractPages(search.pages)
        scores == ScoresOf(search.query.chars, fetched)
    IN  search.out.results = FirstN(Ranked(fetched, scores), search.limit)

\* The handler has just run (the reply is not sent yet).
JustDispatched == pc \in {"respond", "raised"} /\ Happened("dispatched")

\* C8 as stated: for every non-empty query and limit N >= 0 the result is
\* the first N of the candidates sorted by descending score (ties in fetch
\* order) with those at or below 0.3 removed.
C8_NonEmptyQueryRanked ==
    (JustDispatched /\ SearchReturned /\ search.query.t = "txt"
        /\ search.query.chars # EmptyText /\ search.limit >= 0) => ResultIsRanked

\* C8 amended: the same, for every query that is neither empty nor
\* whitespace only.
C8_QueryRanked ==
    (JustDispatched /\ SearchReturned /\ QueryNotBlank /\ search.limit >= 0) => ResultIsRanked

\* Two documents returned, the first of them not the first one fetched.
C8_Witness ==
    /\ JustDispatched /\ SearchReturned /\ QueryNotBlank
    /\ Len(search.out.results) = 2
    /\ search.out.results[1].id # search.pages[1].id

\* C9: search_notes with an empty or whitespace-only query and limit N
\* returns the first N fetched documents, makes no embedding call and leaves
\* the cache as it was; the list handler makes this call.
C9_BlankQueryListsFirstN ==
    /\ (SearchReturned /\ search.query.t = "txt" /\ Strip(search.query.chars) = EmptyText) =>
          /\ search.out.results = FirstN(ExtractPages(search.pages), search.limit)
          /\ \A i \in DOMAIN search.out.calls : search.out.calls[i].op # "embed"
          /\ search.out.cache = search.cache
    /\ (search.made /\ handler = "list_notes") => search.query = JText(EmptyText)

\* C10: a handler that was dispatched returns a reply text; it never raises
\* to handle_message.
C10_DispatchNeverRaises == Happened("dispatched") => pc # "raised"

\* The value is missing from the params, or it is the empty text.
MissingOrEmpty(v) == v.t = "absent" \/ v = JText(EmptyText)

\* The handler returned this text and made no call of its own: nothing but
\* the classification was called for the message, and no search was run.
AnsweredWithoutCalls(kind) ==
    /\ pc \in {"respond", "replied"}
    /\ response_text = Say(kind)
    /\ calls = <<Call("asi1.classify", 0)>>
    /\ search = NoSearch

\* C11: with the Notion client initialised, append_note with title or text
\* missing or empty, add_todo with title or task missing or empty, and
\* archive_note with title missing or empty return their message asking for
\* the parameters and make no call to the workspace (no page fetch, no
\* append, no update).
C11_MissingParameterAsks ==
    (Happened("dispatched") /\ world.notion /\ IsMapping(params)) =>
        /\ (handler = "append_note"
              /\ (MissingOrEmpty(params.title) \/ MissingOrEmpty(params.text))) =>
               AnsweredWithoutCalls("I need both a note title and the text to append.")
        /\ (handler = "add_todo"
              /\ (MissingOrEmpty(params.title) \/ MissingOrEmpty(params.task))) =>
               AnsweredWithoutCalls("I need both a note title and the task text.")
        /\ (handler = "archive_note" /\ MissingOrEmpty(params.title)) =>
               AnsweredWithoutCalls("I need the title of the note to archive.")

\* add_todo with a title and an empty task, in a workspace with a page.
C11_Witness ==
    /\ pc = "replied" /\ handler = "add_todo" /\ world.notion
    /\ world.pages # << >>
    /\ params.title = JText(<<"p">>) /\ params.task = JText(EmptyText)
    /\ response_text = Say("I need both a note title and the task text.")

\* The handlers that resolve a note by its title, and the calls they make on
\* the note they resolved.
ResolvingHandlers == {"read_note", "append_note", "add_todo", "archive_note"}
DocumentOps == {"blocks.list", "blocks.append", "pages.update"}

\* No page the search fetched scores above 0.3 against the query.
NothingScoresAbove ==
    \A i \in DOMAIN search.pages :
        Score(search.query.chars, ExtractTitle(search.pages[i])) <= RelevanceFloor

\* C12: for read_note, append_note, add_todo and archive_note with a title
\* T: when the handler returned and none of the pages fetched scores above
\* 0.3 against T, the reply is exactly Couldn't find a note titled "T". and
\* no content fetch, append or archive call is made on any page.
C12_NoMatchNoOperation ==
    (JustDispatched /\ pc = "respond" /\ handler \in ResolvingHandlers /\ SearchReturned
        /\ search.query.t = "txt" /\ search.query.chars # EmptyText /\ NothingScoresAbove) =>
        /\ response_text = CouldNotFind(search.query)
        /\ \A i \in DOMAIN calls : calls[i].op \notin DocumentOps

\* C13 as stated: each of the nine handlers, when the construction of the
\* Notion client fails, returns the configuration error, calls neither the
\* workspace nor the reasoning service, and attempts the construction once.
C13_EveryHandlerEnsures ==
    (Happened("dispatched") /\ ~world.notion) =>
        /\ pc \in {"respond", "replied"}
        /\ response_text = NotConfigured
        /\ calls = <<Call("asi1.classify", 0)>>
        /\ search = NoSearch
        /\ inits = 1

\* C13 amended: the eight handlers of the workspace intents first ensure
\* the Notion client: when its construction fails they return the
\* configuration error, make no call (workspace, embedding or reasoning
\* service) and attempt the construction once in that call, and when the
\* client is set they attempt none; handle_general_query does not ensure the
\* client: it attempts no construction and calls the reasoning service.
C13_WorkspaceHandlersEnsure ==
    Happened("dispatched") =>
        /\ (handler # "general_query" /\ ~world.notion) =>
              /\ pc \in {"respond", "replied"}
              /\ response_text = NotConfigured
              /\ calls = <<Call("asi1.classify", 0)>>
              /\ search = NoSearch
              /\ inits = 1
        /\ (handler # "general_query" /\ world.notion) => inits = 0
        /\ handler = "general_query" =>
              /\ inits = 0
              /\ calls = <<Call("asi1.classify", 0), Call("asi1.answer", 0)>>
              /\ response_text # NotConfigured

\* archive_note with a title, and no NOTION_API_KEY.
C13_Witness ==
    /\ pc = "replied" /\ handler = "archive_note" /\ ~world.notion
    /\ params.title = JText(<<"p">>)
    /\ inits = 1
    /\ outbox[Len(outbox)] = ReplyMessage(NotConfigured)

\* The calls of the request with one of the operations.
CallsOf(ops) == {i \in DOMAIN calls : calls[i].op \in ops}

\* create page, append blocks, update page
MutatingOps == {"pages.create", "blocks.append", "pages.update"}

ScoredAboveFloor(id) ==
    /\ search.made /\ search.query.t = "txt"
    /\ \E k \in DOMAIN search.pages :
          /\ search.pages[k].id = id
          /\ Score(search.query.chars, ExtractTitle(search.pages[k])) > RelevanceFloor

\* C15: whenever read_note, append_note, add_todo or archive_note fetches
\* the content of a page, appends a block to it or archives it, that page
\* scored strictly above 0.3 against the title of the request; for every
\* title that passes the handler's parameter check, also the empty title of
\* read_note and a whitespace-only title.
C15_OperatesOnlyAboveFloor ==
    (JustDispatched /\ pc = "respond" /\ handler \in ResolvingHandlers) =>
        \A i \in CallsOf(DocumentOps) : ScoredAboveFloor(calls[i].id)

\* C16: a search_notes call that ends by raising at an embedding call was
\* at the embedding of the query; the failure of the embedding of a page
\* title does not end the call, which returns.
C16_TitleEmbeddingFailureIsSkipped ==
    (search.made /\ search.out.raised /\ search.out.calls # << >>
        /\ search.out.calls[Len(search.out.calls)].op = "embed") =>
        search.out.calls[Len(search.out.calls)].id = 0

\* C19: after append_note or add_todo appended a block to a page, or
\* archive_note archived it, the embedding cache holds no entry for the id
\* of that page.
C19_CacheDroppedAfterMutation ==
    (JustDispatched /\ pc = "respond"
        /\ handler \in {"append_note", "add_todo", "archive_note"}) =>
        \A i \in CallsOf({"blocks.append", "pages.update"}) :
            calls[i].id \notin DOMAIN world.cache

\* The embedding calls of a search_notes call for page titles.
TitleEmbeddings(run) ==
    {k \in DOMAIN run.calls : run.calls[k].op = "embed" /\ run.calls[k].id # 0}

\* The search_notes call embedded the title of the page with this id.
EmbeddedTitleOf(run, id) == \E n \in DOMAIN run.calls : run.calls[n] = Call("embed", id)

\* The call of y began after the call of x had returned.
Sequential(x, y) ==
    /\ x # y
    /\ runs[x].at = "returned"
    /\ runs[y].at # "idle"
    /\ x \in runs[y].after

\* C17: of two sequential search_notes calls with the same non-empty query
\* that fetched the same pages (ids, titles and order), the first of which
\* returned, the second makes no embedding call for a page title.
C17_SecondSearchReusesCache ==
    \A x, y \in Callers :
        (Sequential(x, y) /\ runs[x].query = runs[y].query /\ runs[x].query # EmptyText
            /\ runs[x].pages = runs[y].pages) =>
            TitleEmbeddings(runs[y]) = {}

\* The first call embedded the title of every page, the second none.
C17_Witness ==
    /\ Sequential("a", "b")
    /\ runs["b"].at = "returned"
    /\ runs["a"].query = <<"p">> /\ runs["b"].query = <<"p">>
    /\ runs["a"].pages = runs["b"].pages
    /\ Len(runs["a"].pages) = MaxPages
    /\ Cardinality(TitleEmbeddings(runs["a"])) = MaxPages
    /\ runs["b"].calls = <<Call("search", 0), Call("embed", 0)>>
    /\ runs["b"].results # << >>

\* Every cache entry holds the embedding of the title stored with it.
CacheConsistent ==
    \A id \in DOMAIN world.cache : world.cache[id].vec = Embed(world.cache[id].title)

\* Every page the call has scored got the score of the title it was
\* fetched with.
ScoredWithOwnTitle(run) ==
    \A k \in DOMAIN run.scored :
        /\ run.scored[k].page = ExtractPages(run.pages)[k]
        /\ run.scored[k].score = Score(run.query, run.scored[k].page.title)

\* C18: search_notes never scores a page with a cached vector that was
\* stored under another title than the one the page was fetched with, and
\* after any sequence of searches and renames every cache entry holds the
\* embedding of its own stored title.
C18_NoStaleVector ==
    /\ CacheConsistent
    /\ \A c \in Callers : ScoredWithOwnTitle(runs[c])

\* A page renamed between two searches: the second search embedded the new
\* title and the entry now holds it.
C18_Witness ==
    /\ Sequential("a", "b")
    /\ runs["b"].at = "returned"
    /\ \E k \in DOMAIN runs["a"].pages, j \in DOMAIN runs["b"].pages :
          /\ runs["a"].pages[k].id = runs["b"].pages[j].id
          /\ runs["a"].pages[k].parts # runs["b"].pages[j].parts
          /\ EmbeddedTitleOf(runs["a"], runs["a"].pages[k].id)
          /\ EmbeddedTitleOf(runs["b"], runs["b"].pages[j].id)
          /\ world.cache[runs["b"].pages[j].id].title = ExtractTitle(runs["b"].pages[j])

\* What the call returns when it runs alone: on the pages it fetched, with
\* a cache no other call writes.
Alone(run) ==
    SearchNotes(run.pages, EmptyCache, JText(run.query), run.limit, TRUE, {}).results

\* Both calls have ended.
BothEnded == \A c \in Callers : runs[c].at \in {"returned", "raised"}

\* C20: under every interleaving of the search_notes calls of two
\* concurrent requests, a call that returns returns what it would return
\* alone, and when both have ended every cache entry pairs a title with the
\* embedding of that title.
C20_InterleavingIsHarmless ==
    /\ \A c \in Callers : runs[c].at = "returned" => runs[c].results = Alone(runs[c])
    /\ BothEnded => CacheConsistent

\* Two overlapping calls that both embedded the title of the same page.
C20_Witness ==
    /\ \A c \in Callers : runs[c].at = "returned"
    /\ runs["b"].after = {}
    /\ runs["a"].pages = runs["b"].pages
    /\ \E k \in DOMAIN runs["a"].pages :
          \A c \in Callers : EmbeddedTitleOf(runs[c], runs["a"].pages[k].id)
    /\ runs["a"].results # << >>
    /\ runs["a"].results = Alone(runs["a"]) /\ runs["b"].results = Alone(runs["b"])

\* The classification result is a JSON object whose intent is none of the
\* nine handler names, or that has no intent field.
IntentUnknownOrMissing ==
    /\ result.t = "obj"
    /\ ~(result.intent.t = "str" /\ result.intent.name \in IntentNames)

\* C21: a message whose classification result has an intent outside the
\* nine handler names, or no intent field, has been dispatched to
\* handle_general_query with the raw text of the message when handle_message
\* has ended, and no workspace operation was performed for it: nothing but
\* the classification and the reasoning service was called, no search was
\* run and no Notion client was constructed.
C21_UnknownIntentIsGeneralQuery ==
    (Ended /\ Happened("classified") /\ IntentUnknownOrMissing) =>
        /\ Happened("dispatched")
        /\ handler = "general_query"
        /\ calls = <<Call("asi1.classify", 0), Call("asi1.answer", 0)>>
        /\ response_text \in {AnswerTo(ExtractedText(msg.content)),
                              Say("Sorry, I wasn't able to process that.")}
        /\ search = NoSearch
        /\ inits = 0

\* The step is the run of a handler.
HandlerRuns == pc = "dispatch" /\ pc' # "dispatch"

\* C22: once the Notion client is set it stays set: no later step (startup
\* event or request) constructs a client, and an entry leaves the embedding
\* cache only when its page is archived, so the cache is never reset; while
\* the client is unset, every handler of a workspace intent attempts the
\* construction again, once, and the client is set exactly when it
\* succeeds.
C22_InitialisationMemoized ==
    [][/\ world.notion =>
            /\ world'.notion
            /\ HandlerRuns => inits' = 0
            /\ \A id \in DOMAIN world.cache \ DOMAIN world'.cache :
                  /\ handler = "archive_note"
                  /\ IndexOf(world.pages, id, 1) # 0
                  /\ IndexOf(world'.pages, id, 1) = 0
       /\ (~world.notion /\ HandlerRuns /\ handler # "general_query") =>
            /\ inits' = 1
            /\ world'.notion = apiKeySet
            /\ world'.cache = EmptyCache
       /\ (~world.notion /\ ~HandlerRuns /\ started) => ~world'.notion
      ]_vars

\* The second message is answered from a search that found the cache the
\* first message had filled, with no client constructed for it.
C22_Witness ==
    /\ handled = 2 /\ pc = "replied"
    /\ world.notion
    /\ inits = 0
    /\ search.made /\ search.cache # EmptyCache
    /\ world.cache # EmptyCache

====
